---- MODULE Spec2Model ----
(***************************************************************************)
(* The node part of gatsby's redux action creators                         *)
(* (packages/gatsby/src/redux/actions.js): createNode, touchNode,          *)
(* deleteNode, deleteNodes, createNodeField and createParentChildLink,     *)
(* together with the module-level typeOwners table.  The creators are      *)
(* exported bound to store.dispatch (boundActionCreators), so one step of  *)
(* the model is one call of a bound creator: the creator's body followed   *)
(* by the nodes reducer's application of the event it returns.  Node       *)
(* objects are JavaScript objects that the creators mutate in place, so    *)
(* they live in a heap and the store holds references to them.             *)
(***************************************************************************)
EXTENDS Integers, Sequences, FiniteSets, TLC

\* ------------------------------------------------------------- domains

\* Number of node objects the callers keep hold of.
MaxObjs == 2

None == "none"

Plugins == {"P", "Q"}

Types == {"t1", "t2"}

Digests == {"d1", "d2"}

FieldNames == {"f", "g"}

Values == {"v1", "v2"}

\* createUuid(id, namespace): a deterministic id derived from both arguments
\* (a name-based uuid); distinct arguments give distinct ids.  An id is
\* modelled by the sequence of the parts it was derived from.
createUuid(id, name) == Append(id, name)

\* The ids callers write down: a plain name, and a string that happens to
\* equal the id derived from that name for plugin Q.
InputIds == { <<"a">>, createUuid(<<"a">>, "Q") }

Ids == InputIds \cup { createUuid(i, p) : i \in InputIds, p \in Plugins }

NoId == << >>

\* The places of node objects: those the callers hold, and two more for the
\* objects written for a call under way and for the call that follows it.
Refs == 1..(MaxObjs + 2)

NoRef == 0

\* _.uniq: drops repeated elements, keeping each first occurrence in order.
RECURSIVE uniq(_)
uniq(s) ==
  IF s = << >> THEN << >>
  ELSE LET init == uniq(SubSeq(s, 1, Len(s) - 1))
           last == s[Len(s)]
       IN  IF \E i \in 1..Len(init) : init[i] = last THEN init
           ELSE Append(init, last)

\* ------------------------------------------------------------- state

VARIABLES
  heap,        \* Refs -> node object (places above nobjs hold no object)
  nobjs,       \* number of node objects the callers hold
  nodes,       \* the store's nodes state: id -> reference, NoRef when absent
  typeOwners,  \* the module-level typeOwners table: type -> plugin name
  everOwner,   \* history: id -> the plugins ever recorded as owner of the
               \* node stored under that id
  typeWinners, \* history: type -> the plugins on whose behalf createNode has
               \* returned CREATE_NODE or TOUCH_NODE for a node of that type
  lastEvent,   \* the last call: its creator and what it returned
  halted,      \* process.exit was called
  program,     \* the store's program / config snapshot the creators read
  pages,       \* the store's pages state: the page objects created
  redirects,   \* the store's redirects state: the payloads created, in order
  dependencies \* the store's component dependencies: (path, nodeId,
               \* connection) records

nodeVars ==
  << heap, nobjs, nodes, typeOwners, everOwner, typeWinners, halted >>

siteVars == << program, pages, redirects, dependencies >>

vars == << nodeVars, lastEvent, siteVars >>

NoFields == [f \in FieldNames |-> None]

BlankNode ==
  [ id |-> NoId, type |-> None, digest |-> None, owner |-> None,
    hasFields |-> FALSE, fields |-> NoFields, fieldOwners |-> NoFields,
    children |-> << >> ]

\* The node objects a caller may write down and pass to createNode: with or
\* without internal.type and internal.contentDigest, with or without
\* internal.owner, with or without a fields key.
NodeInputs ==
  { [ BlankNode EXCEPT !.id = i, !.type = td[1], !.digest = td[2],
                       !.owner = o, !.hasFields = hf ] :
      i \in InputIds,
      td \in (Types \X Digests) \cup {<<None, "d1">>, <<"t1", None>>},
      o \in Plugins \cup {None}, hf \in BOOLEAN }

\* A well-formed node object: typed, digested, no owner and no fields key.
wellFormed(n) ==
  n.type # None /\ n.digest # None /\ n.owner = None /\ ~n.hasFields

\* The node objects written down where the lifecycle of nodes is followed:
\* well-formed nodes of either type, the first of them with either digest,
\* and one node for each single thing a caller can get wrong (a missing type,
\* a missing digest, an owner, a fields key).
LifecycleNodeInputs ==
  { n \in NodeInputs :
      \/ wellFormed(n) /\ (n.type = "t1" \/ n.digest = "d1")
      \/ /\ n.id = <<"a">>
         /\ n.type \in {None, "t1"}
         /\ n.digest \in {None, "d1"}
         /\ n.owner \in {None, "P"}
         /\ Cardinality({ d \in {"type", "digest", "owner", "fields"} :
                            \/ d = "type" /\ n.type = None
                            \/ d = "digest" /\ n.digest = None
                            \/ d = "owner" /\ n.owner # None
                            \/ d = "fields" /\ n.hasFields }) = 1 }

\* The node objects written down where every creator is followed: one name
\* and one digest, well-formed of either type or with one thing wrong.
FrameNodeInputs ==
  { n \in LifecycleNodeInputs : n.id = <<"a">> /\ n.digest \in {None, "d1"} }

\* The node objects written down where the fields of one node are followed:
\* one name, one type, either digest, with or without a fields key.
FieldNodeInputs ==
  { n \in NodeInputs :
      n.id = <<"a">> /\ n.type = "t1" /\ n.digest # None /\ n.owner = None }

\* The node objects written down where the links of nodes are followed:
\* well-formed nodes of one type and digest under either id, created with no
\* children or with a repeated child id.
LinkNodeInputs ==
  { [ n EXCEPT !.children = c ] :
      n \in { m \in NodeInputs :
                m.type = "t1" /\ m.digest = "d1" /\ m.owner = None
                /\ ~m.hasFields },
      c \in { << >>, << <<"a">>, <<"a">> >> } }

\* What a call returned: the event's type (or how the call ended) and the
\* branch of the creator that produced it.
Event(op, type, reason) == [ op |-> op, type |-> type, reason |-> reason ]

\* A string is the sequence of its characters; these are the characters of
\* the paths written down.
Chars == {"/", "a", "b"}

\* The program / config snapshots: the --prefix-paths flag, config.pathPrefix
\* (absent, or a prefix) and whether src/layouts/index.* exists on disk.  An
\* absent string is held as the text a template literal renders it to.
NoString == <<"undefined">>

PathPrefixes == { NoString, <<"/", "b">> }

Programs ==
  [ prefixPaths : BOOLEAN, pathPrefix : PathPrefixes, hasLayoutIndex : BOOLEAN ]

\* The store before any creator is called, with no node, page, redirect or
\* dependency.
InitStore ==
  /\ heap = [r \in Refs |-> BlankNode]
  /\ nobjs = 0
  /\ nodes = [i \in Ids |-> NoRef]
  /\ typeOwners = [t \in Types |-> None]
  /\ everOwner = [i \in Ids |-> {}]
  /\ typeWinners = [t \in Types |-> {}]
  /\ lastEvent = Event("init", "NONE", "")
  /\ halted = FALSE
  /\ pages = {}
  /\ redirects = << >>
  /\ dependencies = {}

\* A build with path prefixing on and a default layout on disk.
Init ==
  /\ InitStore
  /\ program = [ prefixPaths |-> TRUE, pathPrefix |-> <<"/", "b">>,
                 hasLayoutIndex |-> TRUE ]

\* A build under any program / config snapshot.
InitSite ==
  /\ InitStore
  /\ program \in Programs

\* ------------------------------------------------------------- collaborators

\* getNode(id): the node object stored under id in store st, if any.
getNode(st, id) == st[id]

\* hasNodeChanged(id, digest): no stored node, or a stored digest that differs.
hasNodeChanged(h, st, id, digest) ==
  IF st[id] = NoRef THEN TRUE ELSE h[st[id]].digest # digest

\* Joi.validate(node, nodeSchema): internal.type and internal.contentDigest
\* are required.
validNode(n) == n.type # None /\ n.digest # None

\* The nodes reducer: a created or revised node replaces the stored record,
\* a deleted id is dropped, a touch leaves the nodes as they are.
applyCreateNode(st, id, ref) == [st EXCEPT ![id] = ref]

applyDeleteNodes(st, ids) == [i \in Ids |-> IF i \in ids THEN NoRef ELSE st[i]]

applyAddFieldToNode(st, id, ref) == [st EXCEPT ![id] = ref]

applyAddChildNodeToParentNode(st, id, ref) == [st EXCEPT ![id] = ref]

\* The owner recorded on the node stored under id in store st of heap h.
storedOwner(h, st, id) == IF st[id] = NoRef THEN None ELSE h[st[id]].owner

\* A call's result: the next heap, store and typeOwners table, what the call
\* returned, whether the process exited, and the event's plugin and payload
\* (a node id or a node object).
Result(h, st, owners, ev, exit, plugin, id, ref) ==
  [ heap |-> h, nodes |-> st, typeOwners |-> owners, event |-> ev,
    halted |-> exit, plugin |-> plugin, payloadId |-> id, payload |-> ref ]

\* The state after a call that returned res; type is the internal.type of
\* the node object a createNode call was given.
CommitFor(res, type) ==
  /\ heap' = res.heap
  /\ nodes' = res.nodes
  /\ typeOwners' = res.typeOwners
  /\ lastEvent' = res.event
  /\ halted' = res.halted
  /\ everOwner' =
       [i \in Ids |-> everOwner[i] \cup
                        ({storedOwner(res.heap, res.nodes, i)} \ {None})]
  /\ typeWinners' =
       IF /\ res.event.op = "createNode"
          /\ res.event.type \in {"CREATE_NODE", "TOUCH_NODE"}
          /\ res.plugin # None
         THEN [typeWinners EXCEPT ![type] = @ \cup {res.plugin}]
         ELSE typeWinners
  /\ UNCHANGED siteVars

Commit(res) == CommitFor(res, None)

\* ------------------------------------------------------------- createNode

\* An owner check that lets every node object through.
ownerIsSetNever(n) == FALSE

\* "Tell user not to set the owner name themself."
ownerIsSet(n) == n.owner # None

\* A stamp that records the owner and leaves the id as the caller wrote it.
stampOwnerKeepsId(n, plugin) ==
  IF plugin # None THEN [n EXCEPT !.owner = plugin] ELSE n

\* "Add the plugin name to the internal object and generate uuid for the id".
stampOwner(n, plugin) ==
  IF plugin # None
    THEN [n EXCEPT !.owner = plugin, !.id = createUuid(n.id, plugin)]
    ELSE n

\* A validation that reports a missing type only.
validationFailedOnTypeOnly(n) == n.type = None

\* "The new node didn't pass validation": the result carries an error.
validationFailed(n) == ~validNode(n)

\* A fields check that lets every node object through.
setsFieldsNever(n) == FALSE

\* "Ensure node isn't directly setting fields."
setsFields(n) == n.hasFields

\* A type check that lets every plugin through.
typeConflictNever(owners, type, plugin) == FALSE

\* The type is owned by another plugin.
typeConflict(owners, type, plugin) ==
  owners[type] # None /\ owners[type] # plugin

\* "Type ownership is first come first served": the table after the check.
claimType(owners, type, plugin) ==
  IF owners[type] = None THEN [owners EXCEPT ![type] = plugin] ELSE owners

\* An existing-node check that lets every plugin through.
ownerConflictNever(h, oldNode, plugin) == FALSE

\* "If the node has been created in the past, check that the current plugin
\* is the same as the previous."
ownerConflict(h, oldNode, plugin) ==
  oldNode # NoRef /\ h[oldNode].owner # plugin

\* A processed check that looks at the stored node only, not at its digest.
alreadyProcessedAnyDigest(h, st, oldNode, id, digest) == oldNode # NoRef

\* A processed check that takes a node the store does not hold as processed.
alreadyProcessedWhenAbsent(h, st, oldNode, id, digest) ==
  oldNode = NoRef \/ ~hasNodeChanged(h, st, id, digest)

\* "Check if the node has already been processed."
alreadyProcessed(h, st, oldNode, id, digest) ==
  oldNode # NoRef /\ ~hasNodeChanged(h, st, id, digest)

\* The body of createNode on the node object at ref of heap h, with store st
\* and typeOwners table owners, followed by the reducer's application of the
\* returned event.
createNode(h, st, owners, ref, plugin) ==
  LET given == h[ref] IN
  IF ownerIsSet(given)
    THEN Result(h, st, owners,
                Event("createNode", "EXIT", "owner_set"), TRUE,
                plugin, NoId, NoRef)
  ELSE
  LET node    == stampOwner(given, plugin)
      h1      == [h EXCEPT ![ref] = node]
      oldNode == getNode(st, node.id)
      owners1 == IF plugin # None
                   THEN claimType(owners, node.type, plugin)
                   ELSE owners
  IN
  IF validationFailed(node)
    THEN Result(h1, st, owners,
                Event("createNode", "VALIDATION_ERROR", "validation"), FALSE,
                None, NoId, NoRef)
  ELSE IF setsFields(node)
    THEN Result(h1, st, owners,
                Event("createNode", "THROW", "fields_key"), FALSE,
                plugin, NoId, NoRef)
  ELSE IF plugin # None /\ typeConflict(owners, node.type, plugin)
    THEN Result(h1, st, owners,
                Event("createNode", "THROW", "type_owner"), FALSE,
                plugin, NoId, NoRef)
  ELSE IF plugin # None /\ ownerConflict(h1, oldNode, plugin)
    THEN Result(h1, st, owners1,
                Event("createNode", "THROW", "node_owner"), FALSE,
                plugin, NoId, NoRef)
  ELSE IF alreadyProcessed(h1, st, oldNode, node.id, node.digest)
    THEN Result(h1, st, owners1,
                Event("createNode", "TOUCH_NODE", "unchanged"), FALSE,
                plugin, node.id, NoRef)
  ELSE Result(h1, applyCreateNode(st, node.id, ref), owners1,
              Event("createNode", "CREATE_NODE",
                    IF oldNode = NoRef THEN "new" ELSE "changed"), FALSE,
              plugin, node.id, ref)

\* The call returned an event for the node.
accepted(ev) == ev.type \in {"CREATE_NODE", "TOUCH_NODE"}

\* The heap with a node object written for a call, and the object's place.
newRef == nobjs + 1

withNew(input) == [heap EXCEPT ![newRef] = input]

\* A createNode call: the heap it runs on and the place of its node object.
Call(h, ref) == [ heap |-> h, ref |-> ref ]

\* The createNode calls that can be made in the current state: with any node
\* object of inputs written for the call, or with an object already held.
createNodeCalls(inputs) ==
  { Call(withNew(input), newRef) : input \in inputs }
  \cup { Call(heap, ref) : ref \in 1..nobjs }

\* createNode(node, plugin) with a node object written for this call.  The
\* caller keeps hold of the object only when the call returned an event, and
\* holds at most MaxObjs objects.
CreateNodeNew(inputs) ==
  /\ ~halted
  /\ \E input \in inputs, plugin \in Plugins \cup {None} :
       LET res == createNode(withNew(input), nodes, typeOwners, newRef, plugin)
       IN  IF accepted(res.event)
             THEN /\ nobjs < MaxObjs
                  /\ nobjs' = nobjs + 1
                  /\ CommitFor(res, input.type)
             ELSE /\ nobjs' = nobjs
                  /\ Commit([res EXCEPT !.heap = heap])

\* createNode(node, plugin) with a node object the caller already holds.
CreateNodeAgain ==
  /\ ~halted
  /\ \E ref \in 1..nobjs, plugin \in Plugins \cup {None} :
       /\ nobjs' = nobjs
       /\ CommitFor(createNode(heap, nodes, typeOwners, ref, plugin),
                    heap[ref].type)

\* createNode(node, plugin) with something that is not an object: nothing
\* is returned.
createNodeNonObject(h, st, owners) ==
  Result(h, st, owners, Event("createNode", "NONE", "not_object"), FALSE,
         None, NoId, NoRef)

CreateNodeNonObject ==
  /\ ~halted
  /\ nobjs' = nobjs
  /\ Commit(createNodeNonObject(heap, nodes, typeOwners))

\* ------------------------------------------------------------- touch, delete

touchNode(nodeId, plugin) ==
  Result(heap, nodes, typeOwners, Event("touchNode", "TOUCH_NODE", ""),
         FALSE, plugin, nodeId, NoRef)

TouchNode ==
  /\ ~halted
  /\ \E nodeId \in Ids, plugin \in Plugins \cup {None} :
       /\ nobjs' = nobjs
       /\ Commit(touchNode(nodeId, plugin))

\* A delete that gives up the type of the node it deletes.
deleteNodeReleasesType(h, st, owners, nodeId, plugin) ==
  Result(h, applyDeleteNodes(st, {nodeId}),
         IF st[nodeId] # NoRef /\ h[st[nodeId]].type # None
           THEN [owners EXCEPT ![h[st[nodeId]].type] = None]
           ELSE owners,
         Event("deleteNode", "DELETE_NODE", ""), FALSE, plugin, nodeId, NoRef)

deleteNode(h, st, owners, nodeId, plugin) ==
  Result(h, applyDeleteNodes(st, {nodeId}), owners,
         Event("deleteNode", "DELETE_NODE", ""), FALSE, plugin, nodeId, NoRef)

DeleteNode ==
  /\ ~halted
  /\ \E nodeId \in Ids, plugin \in Plugins \cup {None} :
       /\ nobjs' = nobjs
       /\ Commit(deleteNode(heap, nodes, typeOwners, nodeId, plugin))

deleteNodes(h, st, owners, ids, plugin) ==
  Result(h, applyDeleteNodes(st, ids), owners,
         Event("deleteNodes", "DELETE_NODES", ""), FALSE, plugin, NoId, NoRef)

DeleteNodes ==
  /\ ~halted
  /\ \E ids \in SUBSET { i \in Ids : nodes[i] # NoRef },
        plugin \in Plugins \cup {None} :
       /\ nobjs' = nobjs
       /\ Commit(deleteNodes(heap, nodes, typeOwners, ids, plugin))

\* ------------------------------------------------------------- createNodeField

\* The deprecated fieldName / fieldValue stand in for a missing name / value.
fieldArg(new, old) == IF old # None /\ new = None THEN old ELSE new

\* The arguments callers pass: name and value, or the deprecated fieldName
\* and fieldValue, or both pairs.
FieldArgsOf(names) ==
  { [ name |-> n, value |-> v, fieldName |-> None, fieldValue |-> None ] :
      n \in names, v \in Values }
  \cup
  { [ name |-> None, value |-> None, fieldName |-> n, fieldValue |-> v ] :
      n \in names, v \in Values }
  \cup
  { [ name |-> n, value |-> v, fieldName |-> n, fieldValue |-> w ] :
      n \in names, v \in Values, w \in Values }

FieldArgs == FieldArgsOf(FieldNames)

\* A field check that lets every plugin through.
fieldConflictNever(n, name, plugin) == FALSE

\* "Check that this field isn't owned by another plugin."
fieldConflict(n, name, plugin) ==
  n.fieldOwners[name] # None /\ n.fieldOwners[name] # plugin

\* "Update node".
setField(n, name, value, plugin) ==
  [n EXCEPT !.fields[name] = value, !.fieldOwners[name] = plugin]

\* A createNodeField that writes the value before it checks the owner.
createNodeFieldWritesFirst(ref, name, value, plugin) ==
  LET node == [heap[ref] EXCEPT !.hasFields = TRUE, !.fields[name] = value]
      h1   == [heap EXCEPT ![ref] = node]
  IN
  IF fieldConflict(node, name, plugin)
    THEN Result(h1, nodes, typeOwners,
                Event("createNodeField", "THROW", "field_owner"), FALSE,
                plugin, NoId, NoRef)
    ELSE Result([heap EXCEPT ![ref] = setField(node, name, value, plugin)],
                applyAddFieldToNode(nodes, node.id, ref), typeOwners,
                Event("createNodeField", "ADD_FIELD_TO_NODE",
                      IF node.fieldOwners[name] = None THEN "claimed"
                      ELSE "rewritten"), FALSE,
                plugin, node.id, ref)

\* The body of createNodeField on the held node object at ref, followed by
\* the reducer's application of the returned event.
createNodeField(ref, name, value, plugin) ==
  LET node == [heap[ref] EXCEPT !.hasFields = TRUE]
      h1   == [heap EXCEPT ![ref] = node]
  IN
  IF fieldConflict(node, name, plugin)
    THEN Result(h1, nodes, typeOwners,
                Event("createNodeField", "THROW", "field_owner"), FALSE,
                plugin, NoId, NoRef)
    ELSE Result([heap EXCEPT ![ref] = setField(node, name, value, plugin)],
                applyAddFieldToNode(nodes, node.id, ref), typeOwners,
                Event("createNodeField", "ADD_FIELD_TO_NODE",
                      IF node.fieldOwners[name] = None THEN "claimed"
                      ELSE "rewritten"), FALSE,
                plugin, node.id, ref)

CreateNodeFieldOf(argset) ==
  /\ ~halted
  /\ \E ref \in 1..nobjs, plugin \in Plugins, args \in argset :
       /\ nobjs' = nobjs
       /\ Commit(createNodeField(ref, fieldArg(args.name, args.fieldName),
                                 fieldArg(args.value, args.fieldValue),
                                 plugin))

CreateNodeField == CreateNodeFieldOf(FieldArgs)

\* ------------------------------------------------------------- createParentChildLink

\* A link that pushes the child id and leaves repeated ids in place.
linkChildNoUniq(children, childId) == Append(children, childId)

\* A link that puts the child id in front of the children.
linkChildInFront(children, childId) == uniq(<< childId >> \o children)

\* "Update parent".
linkChild(children, childId) == uniq(Append(children, childId))

\* The body of createParentChildLink on the node objects at parent and child
\* of heap h, followed by the reducer's application of the returned event to
\* store st.
createParentChildLink(h, st, parent, child, plugin) ==
  LET node == [h[parent] EXCEPT
                 !.children = linkChild(h[parent].children, h[child].id)]
  IN  Result([h EXCEPT ![parent] = node],
             applyAddChildNodeToParentNode(st, node.id, parent),
             typeOwners,
             Event("createParentChildLink", "ADD_CHILD_NODE_TO_PARENT_NODE",
                   ""), FALSE, plugin, node.id, parent)

CreateParentChildLink ==
  /\ ~halted
  /\ \E parent \in 1..nobjs, child \in 1..nobjs, plugin \in Plugins \cup {None} :
       /\ nobjs' = nobjs
       /\ Commit(createParentChildLink(heap, nodes, parent, child, plugin))

\* ------------------------------------------------------------- createPage

\* Length of the page paths written down, and number of pages the store
\* holds.
MaxPathLen == 3

MaxPages == 2

\* The strings over Chars of length at most n.
RECURSIVE Strings(_)
Strings(n) ==
  IF n = 0 THEN { << >> }
  ELSE LET shorter == Strings(n - 1)
       IN  shorter \cup { Append(t, c) : t \in shorter, c \in Chars }

isLetter(c) == c \in {"a", "b"}

upper(c) == CASE c = "a" -> "A" [] c = "b" -> "B" [] OTHER -> c

\* _.words on a path: its runs of letters, in order.
RECURSIVE words(_)
words(t) ==
  IF t = << >> THEN << >>
  ELSE LET init == words(SubSeq(t, 1, Len(t) - 1))
           last == t[Len(t)]
       IN  IF ~isLetter(last) THEN init
           ELSE IF Len(t) > 1 /\ isLetter(t[Len(t) - 1])
             THEN [init EXCEPT ![Len(init)] = Append(init[Len(init)], last)]
             ELSE Append(init, <<last>>)

\* _.kebabCase: the words joined by "-".
RECURSIVE kebabWords(_)
kebabWords(ws) ==
  IF ws = << >> THEN << >>
  ELSE IF Len(ws) = 1 THEN ws[1]
  ELSE kebabWords(SubSeq(ws, 1, Len(ws) - 1)) \o <<"-">> \o ws[Len(ws)]

kebabCase(t) == kebabWords(words(t))

\* pascalCase = _.flow(_.camelCase, _.upperFirst): the words, each with an
\* upper-case first letter, one after the other.
RECURSIVE pascalWords(_)
pascalWords(ws) ==
  IF ws = << >> THEN << >>
  ELSE pascalWords(SubSeq(ws, 1, Len(ws) - 1))
       \o << upper(ws[Len(ws)][1]) >> \o SubSeq(ws[Len(ws)], 2, Len(ws[Len(ws)]))

pascalCase(t) == pascalWords(words(t))

\* generateComponentChunkName(component): a name derived from the component.
generateComponentChunkName(component) == << "component---", component >>

\* Joi.validate(page, pageSchema): component is required and path is a
\* non-empty string beginning with "/".
validPage(p) ==
  p.component # None /\ p.path # << >> /\ p.path[1] = "/"

\* The pages reducer: a created page replaces the page of the same path, a
\* deleted path is dropped.
applyCreatePage(st, p) == { q \in st : q.path # p.path } \cup {p}

applyDeletePage(st, p) == { q \in st : q.path # p.path }

\* The page objects callers may write down.
PageInputs ==
  [ path : Strings(MaxPathLen), component : {None, "c"},
    layout : {None, "l"}, context : {None, "ctx"}, matchPath : {None, "m"} ]

\* The page objects written down where pages are followed.
CalledPageInputs ==
  { p \in PageInputs :
      /\ p.path \in { << >>, <<"/">>, <<"a">>, <<"/", "a">>, <<"a", "/", "b">> }
      /\ p.matchPath = None }

\* The values of Date.now().
Times == {1, 2}

\* A path left as the caller wrote it.
normalizePathNever(path) == path

\* "If the path doesn't have an initial forward slash, add it."
normalizePath(path) ==
  IF path = << >> \/ path[1] # "/" THEN <<"/">> \o path ELSE path

\* "If no layout is set we try fallback to `/src/layouts/index`."
pageLayout(prog, layout) ==
  IF layout = None /\ prog.hasLayoutIndex THEN "index" ELSE layout

\* The page object createPage builds, before validation.
internalPage(prog, page, now) ==
  LET kebab   == kebabCase(page.path)
      isIndex == (kebab \o <<".json">> = <<".json">>)
  IN  [ layout |-> pageLayout(prog, page.layout),
        jsonName |-> IF isIndex THEN <<"index.json">>
                     ELSE kebab \o <<".json">>,
        internalComponentName |->
          IF isIndex THEN <<"ComponentIndex">>
          ELSE <<"Component">> \o pascalCase(page.path),
        path |-> normalizePath(page.path),
        matchPath |-> page.matchPath,
        component |-> page.component,
        componentChunkName |-> generateComponentChunkName(page.component),
        context |-> IF page.context = None THEN "{}" ELSE page.context,
        updatedAt |-> now ]

\* What createPage returns: nothing (null) when the page fails validation,
\* else CREATE_PAGE with the page built; and the pages once it is applied.
createPage(prog, st, page, plugin, now) ==
  LET p == internalPage(prog, page, now)
  IN  IF ~validPage(p)
        THEN [ type |-> "NONE", reason |-> "validation", plugin |-> plugin,
               payload |-> p, pages |-> st ]
        ELSE [ type |-> "CREATE_PAGE", reason |-> "", plugin |-> plugin,
               payload |-> p, pages |-> applyCreatePage(st, p) ]

CreatePage ==
  /\ ~halted
  /\ \E page \in CalledPageInputs, plugin \in Plugins \cup {None},
        now \in Times :
       LET res == createPage(program, pages, page, plugin, now)
       IN  /\ Cardinality(res.pages) <= MaxPages
           /\ pages' = res.pages
           /\ lastEvent' = Event("createPage", res.type, res.reason)
  /\ UNCHANGED << nodeVars, program, redirects, dependencies >>

\* deletePage(page): DELETE_PAGE with the page as payload.
deletePage(st, page) ==
  [ type |-> "DELETE_PAGE", payload |-> page,
    pages |-> applyDeletePage(st, page) ]

DeletePage ==
  /\ ~halted
  /\ \E page \in pages :
       /\ pages' = deletePage(pages, page).pages
       /\ lastEvent' = Event("deletePage", "DELETE_PAGE", "")
  /\ UNCHANGED << nodeVars, program, redirects, dependencies >>

\* ------------------------------------------------------------- createRedirect

\* Number of redirects the store holds.
MaxRedirects == 2

\* The paths written down for redirects.
RedirectPaths == { <<"/", "a">>, <<"/", "b">> }

\* The arguments callers pass: the two paths, isPermanent and
\* redirectInBrowser given or left out, and any further keys.
RedirectArgs ==
  [ fromPath : RedirectPaths, toPath : RedirectPaths,
    isPermanent : {None, "true", "false"},
    redirectInBrowser : {None, "true", "false"},
    rest : {None, "Language"} ]

\* A parameter's default: used when the argument is left out.
default(x, d) == IF x = None THEN d ELSE x

\* A prefix read from the config whether or not paths are to be prefixed.
redirectPrefixAlways(prog) == prog.pathPrefix

\* "let pathPrefix = ``; if (program.prefixPaths) pathPrefix =
\* config.pathPrefix".
redirectPrefix(prog) ==
  IF prog.prefixPaths THEN prog.pathPrefix ELSE << >>

\* The redirects reducer: the payload is added to the list.
applyCreateRedirect(st, payload) == Append(st, payload)

\* The payload createRedirect builds under snapshot prog.
createRedirect(prog, args) ==
  [ fromPath |-> redirectPrefix(prog) \o args.fromPath,
    isPermanent |-> default(args.isPermanent, "false"),
    redirectInBrowser |-> default(args.redirectInBrowser, "false"),
    toPath |-> redirectPrefix(prog) \o args.toPath,
    rest |-> args.rest ]

CreateRedirect ==
  /\ ~halted
  /\ Len(redirects) < MaxRedirects
  /\ \E args \in RedirectArgs :
       /\ redirects' = applyCreateRedirect(redirects,
                                           createRedirect(program, args))
       /\ lastEvent' = Event("createRedirect", "CREATE_REDIRECT", "")
  /\ UNCHANGED << nodeVars, program, pages, dependencies >>

\* ------------------------------------------------------------- dependencies

\* Number of dependency records the store holds.
MaxDeps == 3

\* The page paths, node ids and connections of the dependencies recorded.
DepPaths == { <<"/">>, <<"/", "a">>, <<"/", "b">> }

DepArgs ==
  [ path : DepPaths, nodeId : InputIds \cup {NoId},
    connection : Types \cup {None} ]

\* The component dependencies reducer: a created dependency is recorded
\* once, and a delete drops every record of the given page paths.
applyCreateComponentDependency(st, payload) == st \cup {payload}

applyDeleteComponentsDependencies(st, payload) ==
  { d \in st : d.path \notin payload.paths }

\* createPageDependency({ path, nodeId, connection }, plugin): the event and
\* the dependencies once it is applied.
createPageDependency(st, args, plugin) ==
  LET payload == [ path |-> args.path, nodeId |-> args.nodeId,
                   connection |-> args.connection ]
  IN  [ type |-> "CREATE_COMPONENT_DEPENDENCY", plugin |-> plugin,
        payload |-> payload,
        dependencies |-> applyCreateComponentDependency(st, payload) ]

CreatePageDependencyOf(argset) ==
  /\ ~halted
  /\ \E args \in argset, plugin \in {""} \cup Plugins :
       LET res == createPageDependency(dependencies, args, plugin)
       IN  /\ Cardinality(res.dependencies) <= MaxDeps
           /\ dependencies' = res.dependencies
           /\ lastEvent' = Event("createPageDependency", res.type,
                                 IF res.dependencies = dependencies
                                   THEN "known" ELSE "recorded")
  /\ UNCHANGED << nodeVars, program, pages, redirects >>

CreatePageDependency == CreatePageDependencyOf(DepArgs)

\* A delete that carries no path.
deleteComponentsDependenciesNoPaths(st, paths) ==
  LET payload == [ paths |-> {} ]
  IN  [ type |-> "DELETE_COMPONENTS_DEPENDENCIES", payload |-> payload,
        dependencies |-> applyDeleteComponentsDependencies(st, payload) ]

\* deleteComponentsDependencies(paths): the event and the dependencies once
\* it is applied.
deleteComponentsDependencies(st, paths) ==
  LET payload == [ paths |-> paths ]
  IN  [ type |-> "DELETE_COMPONENTS_DEPENDENCIES", payload |-> payload,
        dependencies |-> applyDeleteComponentsDependencies(st, payload) ]

DeleteComponentsDependencies ==
  /\ ~halted
  /\ \E paths \in SUBSET DepPaths :
       LET res == deleteComponentsDependencies(dependencies, paths)
       IN  /\ dependencies' = res.dependencies
           /\ lastEvent' = Event("deleteComponentsDependencies", res.type,
                                 IF res.dependencies = dependencies
                                   THEN "nothing" ELSE "removed")
  /\ UNCHANGED << nodeVars, program, pages, redirects >>

\* ------------------------------------------------------------- specifications

\* Every creator of the node graph.
Next ==
  \/ CreateNodeNew(NodeInputs)
  \/ CreateNodeAgain
  \/ CreateNodeNonObject
  \/ TouchNode
  \/ DeleteNode
  \/ DeleteNodes
  \/ CreateNodeField
  \/ CreateParentChildLink

Spec == Init /\ [][Next]_vars

\* The node lifecycle: create, touch, delete.
NextNode ==
  \/ CreateNodeNew(LifecycleNodeInputs)
  \/ CreateNodeAgain
  \/ CreateNodeNonObject
  \/ TouchNode
  \/ DeleteNode
  \/ DeleteNodes

SpecNode == Init /\ [][NextNode]_vars

\* Number of node objects held where every creator, or every field name, is
\* followed.
MaxFrameObjs == 1

\* The fields of a node: creation and re-creation, field extension.
NextField ==
  \/ CreateNodeNew(FieldNodeInputs)
  \/ CreateNodeAgain
  \/ CreateNodeFieldOf(FieldArgsOf({"f"}))

SpecField == Init /\ [][NextField]_vars

\* The fields of one held node object, under either field name.
NextFieldNames ==
  \/ CreateNodeNew(FieldNodeInputs) /\ nobjs' <= MaxFrameObjs
  \/ CreateNodeAgain
  \/ CreateNodeFieldOf(FieldArgs)

SpecFieldNames == Init /\ [][NextFieldNames]_vars

\* The links of nodes: creation and parent-child linking.
NextLink ==
  \/ CreateNodeNew(LinkNodeInputs)
  \/ CreateNodeAgain
  \/ CreateParentChildLink

SpecLink == Init /\ [][NextLink]_vars

\* Every creator that works on nodes or on their dependencies, for one
\* written node id and one dependency.
NextFrame ==
  \/ CreateNodeNew(FrameNodeInputs) /\ nobjs' <= MaxFrameObjs
  \/ CreateNodeAgain
  \/ CreateNodeNonObject
  \/ TouchNode
  \/ DeleteNode
  \/ DeleteNodes
  \/ CreateNodeFieldOf(FieldArgsOf({"f"}))
  \/ CreateParentChildLink
  \/ CreatePageDependencyOf({ a \in DepArgs : a.path = <<"/">>
                                              /\ a.nodeId = <<"a">>
                                              /\ a.connection = None })
  \/ DeleteComponentsDependencies

SpecFrame == Init /\ [][NextFrame]_vars

\* Pages, under every program / config snapshot.
NextPage ==
  \/ CreatePage
  \/ DeletePage

SpecPage == InitSite /\ [][NextPage]_vars

\* The dependencies of pages on nodes.
NextDeps ==
  \/ CreatePageDependency
  \/ DeleteComponentsDependencies

SpecDeps == Init /\ [][NextDeps]_vars

\* Redirects, under every program / config snapshot.
NextRedirect == CreateRedirect

SpecRedirect == InitSite /\ [][NextRedirect]_vars

\* ------------------------------------------------------------- properties

\* The ids under which a node of type t is stored.
storedOfType(t) == { i \in Ids : nodes[i] # NoRef /\ heap[nodes[i]].type = t }

NodeOwnerIsExclusive ==
  \A n \in Ids : Cardinality(everOwner[n]) <= 1

\* The id createNode resolves for node object n and plugin.
resolvedId(n, plugin) ==
  IF plugin # None THEN createUuid(n.id, plugin) ELSE n.id

\* C3: change detection decides the outcome of createNode.  In every
\* reachable state, for every createNode call that is not rejected: when a
\* node is stored under the resolved id and its digest equals the incoming
\* contentDigest, the call returns TOUCH_NODE whose payload is the resolved
\* id (no node object) and the stored nodes stay as they are; when the
\* stored digest differs, the call returns CREATE_NODE whose payload is the
\* submitted node object, which is then the node stored under that id.
ChangeDetectionDecidesTouchOrCreate ==
  \A c \in createNodeCalls(NodeInputs), plugin \in Plugins \cup {None} :
    LET given == c.heap[c.ref]
        id    == resolvedId(given, plugin)
        res   == createNode(c.heap, nodes, typeOwners, c.ref, plugin)
    IN  (res.event.type \notin {"EXIT", "THROW", "VALIDATION_ERROR"}
         /\ nodes[id] # NoRef) =>
          IF given.digest = heap[nodes[id]].digest
            THEN /\ res.event.type = "TOUCH_NODE"
                 /\ res.payloadId = id
                 /\ res.payload = NoRef
                 /\ res.nodes = nodes
            ELSE /\ res.event.type = "CREATE_NODE"
                 /\ res.payload = c.ref
                 /\ res.nodes[id] = c.ref
                 /\ res.heap[c.ref].digest = given.digest

\* C3 witness: a createNode for a stored node with an unchanged digest has
\* just returned TOUCH_NODE, and the node is still stored with its owner.
UnchangedNodeWasTouched ==
  /\ lastEvent = Event("createNode", "TOUCH_NODE", "unchanged")
  /\ \E i \in Ids : nodes[i] # NoRef /\ heap[nodes[i]].owner = "P"

\* C5: no createNode call partially applies state.  In every reachable
\* state, a createNode call that is rejected (it exits on a pre-set owner, or
\* throws on the fields key, on a type owned by another plugin, or on an
\* existing node of another owner) returns no event and leaves the typeOwners
\* table and the stored nodes exactly as they were.
RejectedCreateNodeChangesNothing ==
  \A c \in createNodeCalls(NodeInputs), plugin \in Plugins \cup {None} :
    LET res == createNode(c.heap, nodes, typeOwners, c.ref, plugin)
    IN  res.event.type \in {"EXIT", "THROW"} =>
          /\ res.typeOwners = typeOwners
          /\ res.nodes = nodes

\* C6 as stated: only the owner can touch or re-create a node.  In every
\* reachable state, for every node stored under id n with owner P, neither
\* createNode nor touchNode returns a CREATE_NODE or TOUCH_NODE event for n
\* on behalf of a plugin Q different from P.
OnlyOwnerTouchesOrRecreates ==
  \A n \in Ids : \A Q \in Plugins :
    (nodes[n] # NoRef /\ heap[nodes[n]].owner \notin {None, Q}) =>
      /\ \A c \in createNodeCalls(NodeInputs) :
           LET res == createNode(c.heap, nodes, typeOwners, c.ref, Q)
           IN  ~ ( res.event.type \in {"CREATE_NODE", "TOUCH_NODE"}
                   /\ res.payloadId = n /\ res.plugin = Q )
      /\ LET res == touchNode(n, Q)
         IN  ~ ( res.event.type = "TOUCH_NODE"
                 /\ res.payloadId = n /\ res.plugin = Q )

\* C6 as amended: only createNode guards the owner.  In every reachable
\* state, for every node stored under id n with owner P, no createNode call
\* on behalf of a plugin Q different from P returns a CREATE_NODE or
\* TOUCH_NODE event for n or replaces the node stored under n; touchNode
\* checks no owner: it returns TOUCH_NODE for n on behalf of Q and leaves the
\* stored nodes as they are.
OnlyOwnerRecreatesThroughCreateNode ==
  \A n \in Ids : \A Q \in Plugins :
    (nodes[n] # NoRef /\ heap[nodes[n]].owner \notin {None, Q}) =>
      /\ \A c \in createNodeCalls(NodeInputs) :
           LET res == createNode(c.heap, nodes, typeOwners, c.ref, Q)
           IN  /\ ~ ( res.event.type \in {"CREATE_NODE", "TOUCH_NODE"}
                      /\ res.payloadId = n )
               /\ res.nodes[n] = nodes[n]
      /\ LET res == touchNode(n, Q)
         IN  /\ res.event.type = "TOUCH_NODE"
             /\ res.payloadId = n /\ res.plugin = Q
             /\ res.nodes = nodes /\ res.heap = heap

\* C6 witness: Q's createNode for the id of a stored node of another owner
\* has just been thrown out by the existing-node check.
OtherPluginWasRefused ==
  /\ lastEvent = Event("createNode", "THROW", "node_owner")
  /\ \E n \in Ids : nodes[n] # NoRef /\ heap[nodes[n]].owner = "P"

\* C10: the owner field is set only by createNode itself.  In every
\* reachable state, a createNode call whose node object already carries
\* internal.owner (written by the caller, or left by an earlier createNode on
\* the same object) exits the process, returns no event and leaves the node
\* object, the typeOwners table and the stored nodes as they were; and every
\* CREATE_NODE returned for a call with a plugin carries a node whose
\* internal.owner is that plugin.
OwnerIsSetOnlyByCreateNode ==
  \A c \in createNodeCalls(NodeInputs), plugin \in Plugins \cup {None} :
    LET given == c.heap[c.ref]
        res   == createNode(c.heap, nodes, typeOwners, c.ref, plugin)
    IN  /\ given.owner # None =>
             /\ res.halted
             /\ res.event.type = "EXIT"
             /\ res.heap = c.heap
             /\ res.typeOwners = typeOwners
             /\ res.nodes = nodes
        /\ (res.event.type = "CREATE_NODE" /\ plugin # None) =>
             res.heap[res.payload].owner = plugin

\* C10 witness: the process has exited on a node object with a pre-set
\* owner while a node created for P is stored.
ExitedOnPresetOwner ==
  /\ halted
  /\ lastEvent = Event("createNode", "EXIT", "owner_set")
  /\ \E i \in Ids : nodes[i] # NoRef /\ heap[nodes[i]].owner = "P"

\* C4: createNodeField enforces per-node field ownership.  In every reachable
\* state, for every held node object, field name, value and plugin: when the
\* field is already owned by the calling plugin, the call returns
\* ADD_FIELD_TO_NODE carrying the node, and the node's field then holds the
\* value just written and stays owned by that plugin; when the field is
\* owned by a different plugin, the call throws, returns no
\* ADD_FIELD_TO_NODE, and leaves the stored nodes, the field's value and its
\* owner as they were, whatever the value.
FieldOwnershipIsEnforced ==
  \A ref \in 1..nobjs, name \in FieldNames, value \in Values,
     plugin \in Plugins :
    LET n   == heap[ref]
        res == createNodeField(ref, name, value, plugin)
        m   == res.heap[ref]
    IN  /\ n.fieldOwners[name] = plugin =>
             /\ res.event.type = "ADD_FIELD_TO_NODE"
             /\ res.payload = ref
             /\ res.nodes[n.id] = ref
             /\ m.fields[name] = value
             /\ m.fieldOwners[name] = plugin
        /\ (n.fieldOwners[name] # None /\ n.fieldOwners[name] # plugin) =>
             /\ res.event.type = "THROW"
             /\ res.nodes = nodes
             /\ m.fields[name] = n.fields[name]
             /\ m.fieldOwners[name] = n.fieldOwners[name]

\* C4 witness: a createNodeField for a field of another plugin has just been
\* thrown out, on a node whose field f is owned by P and holds v2.
OtherPluginsFieldWasRefused ==
  /\ lastEvent = Event("createNodeField", "THROW", "field_owner")
  /\ \E ref \in 1..nobjs :
       heap[ref].fieldOwners["f"] = "P" /\ heap[ref].fields["f"] = "v2"

\* C7: field ownership persists for the node's lifetime.  In every step, for
\* every id n and field name f: when the node stored under n has f owned by
\* a plugin and a node is still stored under n after the step (also when the
\* step is a re-creation of n whose CREATE_NODE is applied), f of the node
\* stored under n is still owned by that plugin.
FieldOwnershipPersists ==
  [][ \A n \in Ids, f \in FieldNames :
        ( nodes[n] # NoRef /\ heap[nodes[n]].fieldOwners[f] # None
          /\ nodes'[n] # NoRef ) =>
          heap'[nodes'[n]].fieldOwners[f] = heap[nodes[n]].fieldOwners[f] ]_vars

occurrences(s, x) == Cardinality({ i \in 1..Len(s) : s[i] = x })

\* C8: createParentChildLink is idempotent.  In every reachable state, for
\* every held parent and child: the call returns
\* ADD_CHILD_NODE_TO_PARENT_NODE carrying the parent, after it the child id
\* occurs exactly once in the parent's children, a second link of the same
\* child changes nothing more, and a link of any other child in between
\* leaves the child id exactly once.
ParentChildLinkIsIdempotent ==
  \A parent \in 1..nobjs, child \in 1..nobjs, plugin \in Plugins \cup {None} :
    LET childId == heap[child].id
        once    == createParentChildLink(heap, nodes, parent, child, plugin)
        twice   == createParentChildLink(once.heap, once.nodes, parent, child,
                                         plugin)
    IN  /\ once.event.type = "ADD_CHILD_NODE_TO_PARENT_NODE"
        /\ once.payload = parent
        /\ once.nodes[once.payloadId] = parent
        /\ occurrences(once.heap[parent].children, childId) = 1
        /\ twice.event.type = "ADD_CHILD_NODE_TO_PARENT_NODE"
        /\ twice.payload = parent
        /\ twice.heap = once.heap
        /\ twice.nodes = once.nodes
        /\ \A other \in 1..nobjs :
             LET between == createParentChildLink(once.heap, once.nodes,
                                                  parent, other, plugin)
                 again   == createParentChildLink(between.heap, between.nodes,
                                                  parent, child, plugin)
             IN  /\ occurrences(again.heap[parent].children,
                                between.heap[child].id) = 1
                 /\ again.heap = between.heap

\* C8 witness: a link has just been made and the parent holds two different
\* children, each once.
ParentHoldsTwoChildren ==
  /\ lastEvent.op = "createParentChildLink"
  /\ \E ref \in 1..nobjs :
       /\ Len(heap[ref].children) = 2
       /\ heap[ref].children[1] # heap[ref].children[2]

\* C11: id resolution in createNode is deterministic.  In every reachable
\* state, for every well-formed node object and every caller: an accepted
\* createNode without a plugin returns the id as the caller wrote it, one
\* with a plugin returns the id derived from the written id and the plugin;
\* and a second createNode by the same caller, with a new node object of the
\* same written id and type, is accepted for the same id, as TOUCH_NODE when
\* its digest is that of the first and as CREATE_NODE when it differs.
IdResolutionIsDeterministic ==
  \A input \in { n \in NodeInputs : wellFormed(n) }, digest \in Digests,
     plugin \in Plugins \cup {None} :
    LET first  == createNode(withNew(input), nodes, typeOwners, newRef, plugin)
        again  == [input EXCEPT !.digest = digest]
        ref2   == newRef + 1
        second == createNode([first.heap EXCEPT ![ref2] = again], first.nodes,
                             first.typeOwners, ref2, plugin)
    IN  first.event.type \in {"CREATE_NODE", "TOUCH_NODE"} =>
          /\ plugin = None => first.payloadId = input.id
          /\ plugin # None => first.payloadId = createUuid(input.id, plugin)
          /\ second.payloadId = first.payloadId
          /\ second.event.type =
               IF again.digest = input.digest THEN "TOUCH_NODE"
               ELSE "CREATE_NODE"

\* C11 witness: Q has created a node under the id derived from a and Q, and
\* Q's second createNode for a with the same digest has just been answered
\* with TOUCH_NODE.
SecondCallFoundTheFirst ==
  /\ lastEvent = Event("createNode", "TOUCH_NODE", "unchanged")
  /\ LET id == createUuid(<<"a">>, "Q")
     IN  /\ nodes[id] # NoRef
         /\ heap[nodes[id]].id = id
         /\ heap[nodes[id]].owner = "Q"
  /\ nodes[<<"a">>] = NoRef

\* C12 as stated: redirect prefixing.  In every reachable state whose
\* snapshot has a configured path prefix p, createRedirect builds a
\* CREATE_REDIRECT payload whose fromPath is p followed by the given fromPath
\* and whose toPath is p followed by the given toPath, with isPermanent and
\* redirectInBrowser false when left out.
RedirectIsPrefixed ==
  \A args \in RedirectArgs :
    LET p       == program.pathPrefix
        payload == createRedirect(program, args)
    IN  p # NoString =>
          /\ payload.fromPath = p \o args.fromPath
          /\ payload.toPath = p \o args.toPath
          /\ args.isPermanent = None => payload.isPermanent = "false"
          /\ args.redirectInBrowser = None
               => payload.redirectInBrowser = "false"

\* C12 as amended: in every reachable state whose snapshot has a configured
\* path prefix p, createRedirect builds a CREATE_REDIRECT payload whose
\* fromPath and toPath are the given paths with p in front when
\* program.prefixPaths is set and the given paths themselves when it is not;
\* isPermanent and redirectInBrowser are as given, false when left out, and
\* the other keys are passed on; the payload is the one the store then holds
\* last.
RedirectIsPrefixedWhenPrefixPaths ==
  /\ \A args \in RedirectArgs :
       LET p       == program.pathPrefix
           payload == createRedirect(program, args)
       IN  p # NoString =>
             /\ payload.fromPath =
                  IF program.prefixPaths THEN p \o args.fromPath
                  ELSE args.fromPath
             /\ payload.toPath =
                  IF program.prefixPaths THEN p \o args.toPath
                  ELSE args.toPath
             /\ payload.isPermanent =
                  IF args.isPermanent = None THEN "false"
                  ELSE args.isPermanent
             /\ payload.redirectInBrowser =
                  IF args.redirectInBrowser = None THEN "false"
                  ELSE args.redirectInBrowser
             /\ payload.rest = args.rest
             /\ applyCreateRedirect(redirects, payload)[Len(redirects) + 1]
                  = payload
  /\ \A i \in 1..Len(redirects) :
       program.pathPrefix # NoString =>
         \E path \in RedirectPaths :
           redirects[i].fromPath =
             IF program.prefixPaths THEN program.pathPrefix \o path ELSE path

\* C12 witness: with prefix /b configured and prefixPaths set, a redirect
\* from /a to /b has just been created and stored as /b/a to /b/b, not
\* permanent.
RedirectWasPrefixed ==
  /\ lastEvent.op = "createRedirect"
  /\ program.prefixPaths /\ program.pathPrefix = <<"/", "b">>
  /\ \E i \in 1..Len(redirects) :
       /\ redirects[i].fromPath = <<"/", "b", "/", "a">>
       /\ redirects[i].toPath = <<"/", "b", "/", "b">>
       /\ redirects[i].isPermanent = "false"

\* C13: page path normalization.  In every reachable state, for every path,
\* with and without a component and a layout, at every time: a page that
\* passes the schema gives CREATE_PAGE
\* whose payload path begins with "/" and is the given path with "/" put in
\* front exactly when the given path does not begin with "/", and which is
\* then the stored page of that path; the path "/" gives jsonName index.json
\* and internalComponentName ComponentIndex; a page that fails the schema
\* gives no event and leaves the pages as they are.  Every stored page's
\* path begins with "/".
PagePathIsNormalized ==
  /\ \A page \in [ path : Strings(MaxPathLen), component : {None, "c"},
                    layout : {None, "l"}, context : {None},
                    matchPath : {None} ],
        now \in Times :
       LET res    == createPage(program, pages, page, None, now)
           path   == res.payload.path
           slash  == page.path # << >> /\ page.path[1] = "/"
       IN  IF page.component # None
             THEN /\ res.type = "CREATE_PAGE"
                  /\ path[1] = "/"
                  /\ slash => path = page.path
                  /\ ~slash => path = <<"/">> \o page.path
                  /\ res.payload \in res.pages
                  /\ \A q \in res.pages : q.path = path => q = res.payload
                  /\ page.path = <<"/">> =>
                       /\ res.payload.jsonName = <<"index.json">>
                       /\ res.payload.internalComponentName
                            = <<"ComponentIndex">>
                  /\ page.path = <<"a", "/", "b">> =>
                       /\ res.payload.jsonName = <<"a", "-", "b", ".json">>
                       /\ res.payload.internalComponentName
                            = <<"Component", "A", "B">>
             ELSE /\ res.type = "NONE"
                  /\ res.pages = pages
  /\ \A q \in pages : q.path[1] = "/"

\* C13 witness: a page written with path a/b has just been created and is
\* stored under /a/b.
PageWasStoredWithSlash ==
  /\ lastEvent = Event("createPage", "CREATE_PAGE", "")
  /\ \E q \in pages :
       /\ q.path = <<"/", "a", "/", "b">>
       /\ q.jsonName = <<"a", "-", "b", ".json">>

\* C14: deleteComponentsDependencies removes the dependencies of the given
\* pages and no others.  In every reachable state and for every set of
\* paths: the call returns one DELETE_COMPONENTS_DEPENDENCIES event whose
\* payload carries exactly the given paths; once it is applied no record
\* (page path, node id, connection) of a given path is left, every record of
\* any other path is still there, and no record has been added.
DeleteRemovesTheGivenPathsOnly ==
  \A paths \in SUBSET DepPaths :
    LET res == deleteComponentsDependencies(dependencies, paths)
    IN  /\ res.type = "DELETE_COMPONENTS_DEPENDENCIES"
        /\ res.payload.paths = paths
        /\ \A d \in res.dependencies : d.path \notin paths
        /\ \A d \in dependencies : d.path \notin paths
                                       => d \in res.dependencies
        /\ res.dependencies \subseteq dependencies

\* C14 witness: a delete has just removed records, and records of /b, for a
\* node and for a connection, are still there.
DependenciesOfOtherPageWereKept ==
  /\ lastEvent = Event("deleteComponentsDependencies",
                       "DELETE_COMPONENTS_DEPENDENCIES", "removed")
  /\ \E d \in dependencies : d.path = <<"/", "b">> /\ d.nodeId # NoId
  /\ \E d \in dependencies : d.path = <<"/", "b">> /\ d.connection # None
  /\ \A d \in dependencies : d.path = <<"/", "b">>

\* C15: a node that is absent from the store is classified New.  In every
\* reachable state, for every well-formed node object and every caller whose
\* createNode for it is accepted: once the node's id has been deleted, by
\* deleteNode on behalf of any plugin or by deleteNodes of that id alone or
\* of every id, a createNode by the same caller with a new node object of
\* the same written id, type and contentDigest returns CREATE_NODE carrying
\* that object, which is then the node stored under the id; and the object of
\* the first call, submitted again, is not answered with TOUCH_NODE either.
AbsentNodeIsNew ==
  \A input \in { n \in NodeInputs : wellFormed(n) },
     plugin \in Plugins \cup {None} :
    \A first \in { createNode(withNew(input), nodes, typeOwners, newRef,
                               plugin) } :
      first.event.type \in {"CREATE_NODE", "TOUCH_NODE"} =>
        \A gone \in
             { deleteNode(first.heap, first.nodes, first.typeOwners,
                          first.payloadId, deleter) :
                 deleter \in Plugins \cup {None} }
             \cup
             { deleteNodes(first.heap, first.nodes, first.typeOwners,
                           ids, None) :
                 ids \in { {first.payloadId}, Ids } } :
          /\ gone.nodes[first.payloadId] = NoRef
          /\ \A second \in
                  { createNode([gone.heap EXCEPT ![newRef + 1] = input],
                               gone.nodes, gone.typeOwners, newRef + 1,
                               plugin) } :
                /\ second.event.type = "CREATE_NODE"
                /\ second.payloadId = first.payloadId
                /\ second.payload = newRef + 1
                /\ second.nodes[first.payloadId] = newRef + 1
                /\ second.heap[newRef + 1].digest = input.digest
          /\ createNode(gone.heap, gone.nodes, gone.typeOwners, newRef,
                        plugin).event.type # "TOUCH_NODE"

\* C15 witness: P holds two node objects of the same id and digest, both
\* accepted, and the second has just been answered with CREATE_NODE as a new
\* node and is the one stored: the first was deleted in between.
DeletedNodeWasCreatedAnew ==
  /\ lastEvent = Event("createNode", "CREATE_NODE", "new")
  /\ nobjs = 2
  /\ heap[1].id = heap[2].id
  /\ heap[1].digest = heap[2].digest
  /\ heap[1].owner = "P" /\ heap[2].owner = "P"
  /\ nodes[heap[2].id] = 2

\* C16: a type claim is won by exactly one plugin.  Over every run, whatever
\* the order of the createNode calls of the plugins, for every type t: the
\* plugins on whose behalf createNode has returned a CREATE_NODE or
\* TOUCH_NODE event for a node of type t are at most one, and that plugin is
\* the entry of the typeOwners table for t.
TypeClaimHasOneWinner ==
  \A t \in Types :
    /\ Cardinality(typeWinners[t]) <= 1
    /\ \A p \in typeWinners[t] : typeOwners[t] = p

\* C16 witness: P has won type t1 and Q type t2, and a createNode of the
\* other plugin for a type already won has just been thrown out.
EachTypeWonByOnePlugin ==
  /\ typeWinners["t1"] = {"P"}
  /\ typeWinners["t2"] = {"Q"}
  /\ lastEvent = Event("createNode", "THROW", "type_owner")

\* C17 as stated: a createNode whose node fails schema validation yields
\* only a VALIDATION_ERROR marker.  In every reachable state, for every
\* createNode call whose node object lacks internal.type or
\* internal.contentDigest: the call returns VALIDATION_ERROR, no CREATE_NODE
\* or TOUCH_NODE, leaves the typeOwners table and the stored nodes as they
\* were and does not exit the process; and a createNode given a non-object
\* returns nothing and changes nothing.
InvalidNodeYieldsValidationError ==
  /\ \A c \in createNodeCalls(NodeInputs), plugin \in Plugins \cup {None} :
       LET given == c.heap[c.ref] IN
       (given.type = None \/ given.digest = None) =>
         \A res \in { createNode(c.heap, nodes, typeOwners, c.ref, plugin) } :
           /\ res.event.type = "VALIDATION_ERROR"
           /\ res.typeOwners = typeOwners
           /\ res.nodes = nodes
           /\ ~res.halted
  /\ \A res \in { createNodeNonObject(heap, nodes, typeOwners) } :
       /\ res.event.type = "NONE"
       /\ res.typeOwners = typeOwners
       /\ res.nodes = nodes /\ res.heap = heap
       /\ ~res.halted

\* C17 as amended: the owner check comes before validation.  In every
\* reachable state, for every createNode call whose node object carries no
\* internal.owner and lacks internal.type or internal.contentDigest: the
\* call returns VALIDATION_ERROR, no CREATE_NODE or TOUCH_NODE, leaves the
\* typeOwners table and the stored nodes as they were and does not exit the
\* process; when the object does carry internal.owner the process exits and
\* no event is returned; and a createNode given a non-object returns nothing
\* and changes nothing.
InvalidUnownedNodeYieldsValidationError ==
  /\ \A c \in createNodeCalls(NodeInputs), plugin \in Plugins \cup {None} :
       LET given == c.heap[c.ref] IN
       (given.type = None \/ given.digest = None) =>
         \A res \in { createNode(c.heap, nodes, typeOwners, c.ref, plugin) } :
           /\ res.typeOwners = typeOwners
           /\ res.nodes = nodes
           /\ IF given.owner = None
                THEN res.event.type = "VALIDATION_ERROR" /\ ~res.halted
                ELSE res.event.type = "EXIT" /\ res.halted
  /\ \A res \in { createNodeNonObject(heap, nodes, typeOwners) } :
       /\ res.event.type = "NONE"
       /\ res.typeOwners = typeOwners
       /\ res.nodes = nodes /\ res.heap = heap
       /\ ~res.halted

\* C17 witness: type t1 is still unclaimed, type t2 belongs to P, the
\* process runs on, and a createNode has just returned VALIDATION_ERROR.
InvalidNodeWasReported ==
  /\ lastEvent = Event("createNode", "VALIDATION_ERROR", "validation")
  /\ typeOwners["t1"] = None
  /\ typeOwners["t2"] = "P"
  /\ ~halted

\* The first place of sequence s that holds x.
firstIndex(s, x) ==
  CHOOSE i \in 1..Len(s) : s[i] = x /\ \A j \in 1..(i - 1) : s[j] # x

\* C18: createParentChildLink preserves the parent's existing children.  In
\* every reachable state, for every held parent and child: after the call no
\* id occurs twice in the parent's children; every id that was in the list
\* is still in it, and in the order of the first occurrences it had; the
\* only id that can be new is the child id, which is in the list, and is its
\* last element when it was not in the list before; and the list is as
\* long as its ids are many.
ParentChildLinkKeepsChildren ==
  \A parent \in 1..nobjs, child \in 1..nobjs, plugin \in Plugins \cup {None} :
    LET before  == heap[parent].children
        childId == heap[child].id
        was     == { before[i] : i \in 1..Len(before) }
        after   == createParentChildLink(heap, nodes, parent, child,
                                         plugin).heap[parent].children
        is      == { after[i] : i \in 1..Len(after) }
    IN  /\ \A i, j \in 1..Len(after) : i # j => after[i] # after[j]
        /\ is = was \cup {childId}
        /\ \A x, y \in was :
             firstIndex(before, x) < firstIndex(before, y)
               => firstIndex(after, x) < firstIndex(after, y)
        /\ childId \notin was => after[Len(after)] = childId
        /\ Len(after) = Cardinality(was \cup {childId})

\* C18 witness: a link has just been made on a parent that was created with
\* a repeated child id a: a is now once in its children, in front, followed
\* by the ids of the two held nodes.
ParentKeptItsFirstChild ==
  /\ lastEvent.op = "createParentChildLink"
  /\ \E ref \in 1..nobjs :
       /\ Len(heap[ref].children) = 3
       /\ heap[ref].children[1] = <<"a">>
       /\ heap[ref].children[3] = heap[ref].id

\* C19: the typeOwners table changes only through createNode calls that
\* carry a plugin and pass validation and the fields check.  In every step
\* of every creator of nodes and dependencies: an entry of the table that is
\* set stays as it is; and when the table changes, the step is a createNode
\* that got past validation and the fields check.  In every reachable state:
\* a createNode without a plugin leaves the table as it is, whatever the node
\* object; a createNode with a plugin changes it only for a node object with
\* no pre-set owner, with type and digest and without a fields key, and then
\* only by setting the entry of that type to the plugin; and touchNode,
\* deleteNode, deleteNodes, createNodeField and createParentChildLink return
\* with the table as it is.
TypeOwnersChangeOnlyThroughCreateNode ==
  /\ [][ /\ \A t \in Types :
             typeOwners[t] # None => typeOwners'[t] = typeOwners[t]
         /\ typeOwners' # typeOwners =>
              /\ lastEvent'.op = "createNode"
              /\ lastEvent'.type \in {"CREATE_NODE", "TOUCH_NODE", "THROW"}
              /\ lastEvent'.reason # "fields_key" ]_vars
  /\ [] /\ \A c \in createNodeCalls(NodeInputs), plugin \in Plugins \cup {None} :
            LET given == c.heap[c.ref] IN
            \A res \in { createNode(c.heap, nodes, typeOwners, c.ref, plugin) } :
              res.typeOwners # typeOwners =>
                /\ plugin # None
                /\ given.owner = None
                /\ given.type # None /\ given.digest # None
                /\ ~given.hasFields
                /\ res.typeOwners = [typeOwners EXCEPT ![given.type] = plugin]
        /\ \A nodeId \in Ids, plugin \in Plugins \cup {None} :
            /\ touchNode(nodeId, plugin).typeOwners = typeOwners
            /\ deleteNode(heap, nodes, typeOwners, nodeId,
                          plugin).typeOwners = typeOwners
        /\ \A ids \in SUBSET Ids, plugin \in Plugins \cup {None} :
            deleteNodes(heap, nodes, typeOwners, ids,
                        plugin).typeOwners = typeOwners
        /\ \A ref \in 1..nobjs, name \in FieldNames, value \in Values,
              plugin \in Plugins :
            createNodeField(ref, name, value, plugin).typeOwners = typeOwners
        /\ \A parent \in 1..nobjs, child \in 1..nobjs,
              plugin \in Plugins \cup {None} :
            createParentChildLink(heap, nodes, parent, child,
                                  plugin).typeOwners = typeOwners

\* C19 witness: type t1 belongs to P and t2 to nobody, no node is stored any
\* more, a held node has a field and a child, a dependency is recorded, and
\* the dependencies of a page have just been deleted.
TypeOwnersOutlivedEveryOtherCall ==
  /\ typeOwners = [t \in Types |-> IF t = "t1" THEN "P" ELSE None]
  /\ \A i \in Ids : nodes[i] = NoRef
  /\ \E ref \in 1..nobjs :
       heap[ref].fields["f"] # None /\ heap[ref].children # << >>
  /\ dependencies # {}
  /\ lastEvent.op = "deleteComponentsDependencies"

\* C20: a createNodeField rejected for a field-ownership conflict leaves the
\* node unchanged.  In every reachable state, for every held node object,
\* every name and value, given as name / value or as the deprecated
\* fieldName / fieldValue, and every plugin: when the field is owned by
\* another plugin the call throws, returns no event, and the value of every
\* field and the owner of every field of the node, the conflicting one
\* included, are what they were; the node object as a whole and the stored
\* nodes are what they were.
RejectedFieldLeavesNodeUnchanged ==
  \A ref \in 1..nobjs, args \in FieldArgs, plugin \in Plugins :
    LET n     == heap[ref]
        name  == IF args.name # None THEN args.name ELSE args.fieldName
    IN  (n.fieldOwners[name] # None /\ n.fieldOwners[name] # plugin) =>
          \A res \in { createNodeField(ref, fieldArg(args.name, args.fieldName),
                                        fieldArg(args.value, args.fieldValue),
                                        plugin) } :
            /\ res.event.type = "THROW"
            /\ res.payload = NoRef
            /\ \A f \in FieldNames :
                 /\ res.heap[ref].fields[f] = n.fields[f]
                 /\ res.heap[ref].fieldOwners[f] = n.fieldOwners[f]
            /\ res.heap = heap
            /\ res.nodes = nodes

\* C20 witness: a createNodeField has just been thrown out on a node whose
\* field f is owned by P and whose field g is owned by Q, each with its own
\* value.
FieldOfEitherPluginWasKept ==
  /\ lastEvent = Event("createNodeField", "THROW", "field_owner")
  /\ \E ref \in 1..nobjs :
       /\ heap[ref].fieldOwners = [f \in FieldNames |->
                                     IF f = "f" THEN "P" ELSE "Q"]
       /\ heap[ref].fields = [f \in FieldNames |->
                                IF f = "f" THEN "v1" ELSE "v2"]

====
